---- MODULE Spec2Model ----
(***************************************************************************)
(* Peer session core of the cooperation daemon: the framed codec           *)
(* (utils/message_helper.h) and the per-peer Machine session               *)
(* (dde-cooperation-daemon/Machine/Machine.cc).                            *)
(*                                                                         *)
(* A Machine is a record; every handler of Machine.cc is an operator that  *)
(* maps a world (all Machines plus the Manager) to the world after the     *)
(* handler has run to completion.  Actions are the event-loop callbacks.   *)
(***************************************************************************)
EXTENDS Integers, Sequences, FiniteSets, TLC

VARIABLES
    mach,      \* Machine id -> Machine record (fields of class Machine + its stream)
    mgr,       \* daemon -> its Manager: sharing slot and service switches
    home,      \* Machine id -> the daemon whose Manager owns it
    wire,      \* Machine id -> bytes in flight from the peer, not yet read
    sent,      \* history: Machine id -> messages the peer has encoded onto the wire
    crashed,   \* the daemon process has died (null dereference)
    used       \* how many peer frames and user calls the run has taken so far

vars == <<mach, mgr, home, wire, sent, crashed, used>>

(***************************************************************************)
(* Bounds of the model.                                                    *)
(***************************************************************************)
MaxFrames == 2
MaxOps == 1
MaxOut == 5

Ids == {1, 2}
Daemons == {1, 2}
None == 0

(***************************************************************************)
(* Bytes and 64-bit words.  A uint64_t is kept as its 8 bytes in memory    *)
(* (little-endian host), so that htonll/ntohll are modelled by what they   *)
(* do to the bytes.                                                        *)
(***************************************************************************)

Reverse(s) == [k \in 1..Len(s) |-> s[Len(s) + 1 - k]]

\* value (< 2^31) -> the 8 bytes of a little-endian uint64_t
U64(n) == [k \in 1..8 |-> IF k <= 4 THEN (n \div (256 ^ (k - 1))) % 256 ELSE 0]

\* htonl on the 4 bytes of a uint32_t
htonl(b4) == Reverse(b4)

\* an htonll that swaps the bytes of each half and leaves the halves in place
htonllHalves(b8) == htonl(SubSeq(b8, 1, 4)) \o htonl(SubSeq(b8, 5, 8))

\* ((uint64_t)htonl(x & 0xFFFFFFFF) << 32) | htonl(x >> 32)
htonll(b8) == htonl(SubSeq(b8, 5, 8)) \o htonl(SubSeq(b8, 1, 4))

ntohll(b8) == htonl(SubSeq(b8, 5, 8)) \o htonl(SubSeq(b8, 1, 4))

\* "DDECPRT" with its terminating NUL: sizeof(MAGIC) = 8
MAGIC == <<68, 68, 69, 67, 80, 82, 84, 0>>

\* struct MessageHeader, packed: magic_[8] then size_
MessageHeader(size) == MAGIC \o htonll(U64(size))

header_size == 16

\* a legal() that compares the text of the magic and not its terminating NUL
legalText(header) == SubSeq(header, 1, Len(MAGIC) - 1) = SubSeq(MAGIC, 1, Len(MAGIC) - 1)

\* MessageHeader::legal
legal(header) == SubSeq(header, 1, Len(MAGIC)) = MAGIC

\* MessageHeader::size, as the 8 bytes of the uint64_t it returns
size(header) == ntohll(SubSeq(header, Len(MAGIC) + 1, header_size))

\* a uint64_t beyond the model's integers.  The peers of these specifications
\* write no legal header with a length of 2^64 - 16 or more, so that
\* header_size + size() does not wrap and is larger than any buffer.
Huge(b8) == (\E k \in 5..8 : b8[k] # 0) \/ b8[4] >= 64

Val(b8) == b8[1] + 256 * b8[2] + 65536 * b8[3] + 16777216 * b8[4]

(***************************************************************************)
(* Messages.  A Message is the tagged union of protocol/message.proto:     *)
(* its payload case and the field values of that variant.  The body on the *)
(* wire is the variant's tag followed by its fields, one byte each; the    *)
(* empty body is the Message with no payload set.                          *)
(***************************************************************************)
Kinds == << "PairRequest", "PairResponse", "ServiceOnOffNotification",
            "DeviceSharingStartRequest", "DeviceSharingStartResponse",
            "DeviceSharingStopRequest", "DeviceSharingStopResponse",
            "FlowDirectionNtf",
            "InputEventRequest", "InputEventResponse",
            "FsRequest", "FsResponse",
            "FsSendFileRequest", "FsSendFileResponse", "FsSendFileResult",
            "ClipboardGetContentRequest", "ClipboardGetContentResponse",
            "ClipboardNotify" >>


Tag(kind) == CHOOSE k \in 1..Len(Kinds) : Kinds[k] = kind

FieldCount(kind) ==
    CASE kind = "PairRequest" -> 1                   \* key
      [] kind = "PairResponse" -> 2                  \* key, agree
      [] kind = "ServiceOnOffNotification" -> 2      \* sharedClipboardOn, sharedDevicesOn
      [] kind = "DeviceSharingStartResponse" -> 1    \* accept
      [] kind = "FlowDirectionNtf" -> 1              \* direction
      [] kind = "InputEventRequest" -> 5             \* serial, devicetype, type, code, value
      [] kind = "InputEventResponse" -> 2            \* serial, success
      [] kind = "FsResponse" -> 2                    \* accepted, port
      [] kind = "FsSendFileRequest" -> 2             \* serial, path
      [] kind = "FsSendFileResponse" -> 2            \* serial, accepted
      [] kind = "FsSendFileResult" -> 3              \* serial, path, result
      [] kind = "ClipboardGetContentRequest" -> 1    \* target
      [] kind = "ClipboardGetContentResponse" -> 2   \* target, content
      [] OTHER -> 0

Msg(kind, fields) == [kind |-> kind, f |-> fields]

NotSet == Msg("NotSet", <<>>)

\* the scan key "UOS-COOPERATION"
SCAN_KEY == 1

\* a key that is not the scan key
OTHER_KEY == 2

B2N(b) == IF b THEN 1 ELSE 0

FLOW_DIRECTION_TOP == 0
FLOW_DIRECTION_RIGHT == 1
FLOW_DIRECTION_BOTTOM == 2
FLOW_DIRECTION_LEFT == 3

KEYBOARD == 0
MOUSE == 1
TOUCHPAD == 2

DEVICE_OS_UOS == 1
DEVICE_OS_LINUX == 2

\* the clipboard targets "x-special/gnome-copied-files" and "text/uri-list",
\* and one more, "text/plain"
clipboardFileTarget == 1
uriListTarget == 2
textTarget == 3

\* Message::SerializeToArray
SerializeToArray(msg) ==
    IF msg.kind = "NotSet" THEN <<>> ELSE <<Tag(msg.kind)>> \o msg.f

\* Message::ByteSizeLong
ByteSizeLong(msg) == Len(SerializeToArray(msg))

\* Message::ParseFromArray: total, a body that does not parse leaves the
\* default Message (no payload set).  The targets of a ClipboardNotify are a
\* repeated field, of any number.
ParseFromArray(body) ==
    IF body = <<>> \/ body[1] \notin 1..Len(Kinds) THEN NotSet
    ELSE IF Kinds[body[1]] # "ClipboardNotify" /\ Len(body) - 1 # FieldCount(Kinds[body[1]])
    THEN NotSet
    ELSE Msg(Kinds[body[1]], Tail(body))

\* MessageHelper::genMessage
genMessage(msg) == MessageHeader(ByteSizeLong(msg)) \o SerializeToArray(msg)

\* a parseMessage that wants one byte more than the frame
parseMessageOneMore(buff) ==
    LET header == SubSeq(buff, 1, header_size)
        n == Val(size(header))
    IN  IF ~legal(header)
        THEN [err |-> "ILLEGAL_MESSAGE", msg |-> NotSet, rest |-> buff]
        ELSE IF Huge(size(header)) \/ Len(buff) <= header_size + n
        THEN [err |-> "PARTIAL_MESSAGE", msg |-> NotSet, rest |-> buff]
        ELSE [err |-> "OK",
              msg |-> ParseFromArray(SubSeq(buff, header_size + 1, header_size + n)),
              rest |-> SubSeq(buff, header_size + n + 1, Len(buff))]

\* MessageHelper::parseMessage<Message>, on a buffer that holds a header.
\* rest is the buffer as the call leaves it.
parseMessage(buff) ==
    LET header == SubSeq(buff, 1, header_size)
        n == Val(size(header))
    IN  IF ~legal(header)
        THEN [err |-> "ILLEGAL_MESSAGE", msg |-> NotSet, rest |-> buff]
        ELSE IF Huge(size(header)) \/ Len(buff) < header_size + n
        THEN [err |-> "PARTIAL_MESSAGE", msg |-> NotSet, rest |-> buff]
        ELSE [err |-> "OK",
              msg |-> ParseFromArray(SubSeq(buff, header_size + 1, header_size + n)),
              rest |-> SubSeq(buff, header_size + n + 1, Len(buff))]

(***************************************************************************)
(* The Machine.  conn is m_conn together with the state of the stream it   *)
(* points to: "null" (m_conn reset), "connecting", "open", "closing"       *)
(* (close() called, onClosed not yet delivered) and "closed" (the stream   *)
(* is gone but m_conn still points to it).  wired says that initConnection *)
(* has set the stream's onClosed/onReceived to this Machine.  buf is the   *)
(* stream's read buffer, out the frames handed to the stream's write().    *)
(* tx counts the frames of out the transport has taken.  async is the      *)
(* queue of closures given to m_async->wake.  History: handled is the      *)
(* sequence of dispatcher arms taken on the current stream, outbound says  *)
(* that connect() made the stream (onPair() otherwise).  fuseServer is 0   *)
(* or the port of m_fuseServer, fuseClient says that m_fuseClient is set,  *)
(* copies are the /bin/cp processes whose onExit is pending, reads the     *)
(* clipboard reads whose callback is pending.  emitted is                  *)
(* what the input emittors were given; emitOk (whether their pipe takes    *)
(* the bytes) and ephemeral (the port a new FuseServer gets) belong to the *)
(* environment.  os is the peer's m_os, owned the targets last given to    *)
(* Manager::onMachineOwnClipboard.  removed says that the Manager has dropped the Machine and *)
(* ~Machine has run.                                                       *)
(***************************************************************************)
ACCEPT == 1
REJECT == 0

\* Machine::Machine
NewMachine ==
    [ conn |-> "null", wired |-> FALSE,
      connected |-> FALSE, deviceSharing |-> FALSE,
      direction |-> FLOW_DIRECTION_RIGHT, sharedClipboard |-> FALSE,
      pingTimer |-> "running", offlineTimer |-> "running",
      confirmDialog |-> FALSE,
      buf |-> <<>>, out |-> <<>>, tx |-> 0, outbound |-> FALSE,
      async |-> <<>>, handled |-> <<>>,
      fuseServer |-> 0, fuseClient |-> FALSE, copies |-> <<>>, reads |-> <<>>,
      emitted |-> <<>>, emitOk |-> TRUE, ephemeral |-> 1,
      os |-> DEVICE_OS_UOS, owned |-> <<>>,
      removed |-> FALSE ]

World == [mach |-> mach, mgr |-> mgr, home |-> home, crashed |-> crashed]

\* Manager::onStartDeviceSharing: rejected when another Machine holds the session
onStartDeviceSharing(w, i) ==
    IF w.mgr[w.home[i]].slot = None THEN [w EXCEPT !.mgr[w.home[i]].slot = i] ELSE w

\* Manager::onStopDeviceSharing: clears the active-session slot
onStopDeviceSharing(w, i) == [w EXCEPT !.mgr[w.home[i]].slot = None]

\* uvxx::Stream::write on m_conn: queues a send
write(w, i, bytes) ==
    IF w.mach[i].conn = "null" THEN [w EXCEPT !.crashed = TRUE]
    ELSE [w EXCEPT !.mach[i].out = Append(@, bytes)]

\* uvxx::Stream::close on m_conn: onClosed is delivered later, once
close(w, i) ==
    IF w.mach[i].conn = "null" THEN [w EXCEPT !.crashed = TRUE]
    ELSE IF w.mach[i].conn \in {"connecting", "open"}
    THEN [w EXCEPT !.mach[i].conn = "closing"]
    ELSE w

\* a sendMessage that does not look at m_conn
sendMessageUnchecked(w, i, msg) == write(w, i, genMessage(msg))

\* Machine::sendMessage
sendMessage(w, i, msg) ==
    IF w.mach[i].conn = "null" THEN w ELSE write(w, i, genMessage(msg))

\* Machine::sendServiceStatusNotification
sendServiceStatusNotification(w, i) ==
    sendMessage(w, i, Msg("ServiceOnOffNotification",
                          <<B2N(w.mgr[w.home[i]].sharedClipboard),
                            B2N(w.mgr[w.home[i]].sharedDevices)>>))

\* Machine::sendFlowDirectionNtf
sendFlowDirectionNtf(w, i) ==
    sendMessage(w, i, Msg("FlowDirectionNtf", <<w.mach[i].direction>>))

\* Machine::initConnection
initConnection(w, i) ==
    IF w.mach[i].conn = "null" THEN [w EXCEPT !.crashed = TRUE]
    ELSE [w EXCEPT !.mach[i].wired = TRUE]

\* Machine::stopDeviceSharingAux
stopDeviceSharingAux(w, i) ==
    [onStopDeviceSharing(w, i) EXCEPT !.mach[i].deviceSharing = FALSE]

\* a handleDisconnectedAux that leaves the FuseServer running
handleDisconnectedAuxKeep(w, i) ==
    LET w1 == IF w.mach[i].connected
              THEN [onStopDeviceSharing(w, i) EXCEPT !.mach[i].deviceSharing = FALSE,
                                                     !.mach[i].connected = FALSE]
              ELSE w
    IN  [w1 EXCEPT !.mach[i].fuseClient = FALSE,
                   !.mach[i].conn = "null",
                   !.mach[i].wired = FALSE,
                   !.mach[i].buf = <<>>,
                   !.mach[i].pingTimer = "running"]

\* Machine::handleDisconnectedAux
handleDisconnectedAux(w, i) ==
    LET w1 == IF w.mach[i].connected
              THEN [onStopDeviceSharing(w, i) EXCEPT !.mach[i].deviceSharing = FALSE,
                                                     !.mach[i].connected = FALSE]
              ELSE w
    IN  [w1 EXCEPT !.mach[i].fuseClient = FALSE,
                   !.mach[i].fuseServer = 0,
                   !.mach[i].conn = "null",
                   !.mach[i].wired = FALSE,
                   !.mach[i].buf = <<>>,
                   !.mach[i].pingTimer = "running"]

\* Machine::~Machine: the timers and the async handle are closed (what was
\* queued on it never runs); an owned stream has its onClosed cleared and is
\* closed, and the Manager is told to stop the sharing session
destroyMachine(w, i) ==
    LET w1 == [w EXCEPT !.mach[i].pingTimer = "closed",
                        !.mach[i].offlineTimer = "closed",
                        !.mach[i].async = <<>>,
                        !.mach[i].removed = TRUE]
    IN  IF w1.mach[i].conn = "null" THEN w1
        ELSE onStopDeviceSharing(close([w1 EXCEPT !.mach[i].wired = FALSE], i), i)

\* Manager::onMachineOffline: the Manager drops the Machine
onMachineOffline(w, i) == destroyMachine(w, i)

\* Machine::onOffline
onOffline(w, i) == onMachineOffline(w, i)

\* Machine::handlePairResponseAux
handlePairResponseAux(w, i, resp) ==
    IF resp.f[2] = 0
    THEN [close(w, i) EXCEPT !.mach[i].connected = FALSE]
    ELSE sendServiceStatusNotification([w EXCEPT !.mach[i].connected = TRUE], i)

\* Machine::handleServiceOnOffMsg
handleServiceOnOffMsg(w, i, notification) ==
    [w EXCEPT !.mach[i].sharedClipboard = (notification.f[1] # 0)]

\* Machine::handleDeviceSharingStartRequest: the reply is left to the async wake
handleDeviceSharingStartRequest(w, i) ==
    [w EXCEPT !.mach[i].async = Append(@, "DeviceSharingStartRequest")]

\* the closure handleDeviceSharingStartRequest gives to m_async->wake (accepted = true)
wakeDeviceSharingStart(w, i) ==
    LET w1 == sendMessage(w, i, Msg("DeviceSharingStartResponse", <<1>>))
        w2 == onStartDeviceSharing(w1, i)
    IN  [w2 EXCEPT !.mach[i].deviceSharing = TRUE,
                   !.mach[i].direction = FLOW_DIRECTION_LEFT]

\* Machine::handleDeviceSharingStartResponse
handleDeviceSharingStartResponse(w, i, resp) ==
    IF resp.f[1] = 0 THEN w
    ELSE LET w1 == [w EXCEPT !.mach[i].deviceSharing = TRUE,
                             !.mach[i].direction = FLOW_DIRECTION_RIGHT]
         IN  onStartDeviceSharing(sendFlowDirectionNtf(w1, i), i)

\* Machine::handleDeviceSharingStopRequest
handleDeviceSharingStopRequest(w, i) == stopDeviceSharingAux(w, i)

\* Machine::handleFlowDirectionNtf
handleFlowDirectionNtf(w, i, ntf) ==
    LET d == ntf.f[1] IN
    CASE d = FLOW_DIRECTION_TOP -> [w EXCEPT !.mach[i].direction = FLOW_DIRECTION_BOTTOM]
      [] d = FLOW_DIRECTION_BOTTOM -> [w EXCEPT !.mach[i].direction = FLOW_DIRECTION_TOP]
      [] d = FLOW_DIRECTION_LEFT -> [w EXCEPT !.mach[i].direction = FLOW_DIRECTION_RIGHT]
      [] d = FLOW_DIRECTION_RIGHT -> [w EXCEPT !.mach[i].direction = FLOW_DIRECTION_LEFT]
      [] OTHER -> w

\* the keys of m_inputEmittors
InputDeviceTypes == {KEYBOARD, MOUSE, TOUCHPAD}

\* InputEmittorWrapper::emitEvent: the triple goes to the injector's pipe,
\* the result says whether the pipe took it
emitEvent(w, i, devicetype, type, code, value) ==
    [w EXCEPT !.mach[i].emitted = Append(@, <<devicetype, type, code, value>>)]

\* a handleInputEventRequest that reports what the emittor was given as done
handleInputEventRequestDone(w, i, req) ==
    LET found == req.f[2] \in InputDeviceTypes
        w1 == IF found THEN emitEvent(w, i, req.f[2], req.f[3], req.f[4], req.f[5]) ELSE w
    IN  write(w1, i, genMessage(Msg("InputEventResponse", <<req.f[1], B2N(found)>>)))

\* Machine::handleInputEventRequest
handleInputEventRequest(w, i, req) ==
    LET serial == req.f[1]
        deviceType == req.f[2]
        found == deviceType \in InputDeviceTypes
        w1 == IF found THEN emitEvent(w, i, deviceType, req.f[3], req.f[4], req.f[5]) ELSE w
        success == IF found THEN w.mach[i].emitOk ELSE FALSE
    IN  write(w1, i, genMessage(Msg("InputEventResponse", <<serial, B2N(success)>>)))

\* a handleFsRequest that does not look for a running server
handleFsRequestAgain(w, i) ==
    LET w1 == [w EXCEPT !.mach[i].fuseServer = w.mach[i].ephemeral]
    IN  sendMessage(w1, i, Msg("FsResponse", <<1, w1.mach[i].fuseServer>>))

\* Machine::handleFsRequest
handleFsRequest(w, i) ==
    IF w.mach[i].fuseServer # 0
    THEN sendMessage(w, i, Msg("FsResponse", <<0, 0>>))
    ELSE LET w1 == [w EXCEPT !.mach[i].fuseServer = w.mach[i].ephemeral]
         IN  sendMessage(w1, i, Msg("FsResponse", <<1, w1.mach[i].fuseServer>>))

\* Machine::handleFsResponse
handleFsResponse(w, i, resp) ==
    IF resp.f[1] = 0 THEN w ELSE [w EXCEPT !.mach[i].fuseClient = TRUE]

\* a handleFsSendFileRequest that starts the copy whatever it has answered
handleFsSendFileRequestSpawn(w, i, req) ==
    LET w1 == sendMessage(w, i, Msg("FsSendFileResponse",
                                    <<req.f[1], B2N(w.mach[i].fuseClient)>>))
    IN  [w1 EXCEPT !.mach[i].copies = Append(@, [serial |-> req.f[1], path |-> req.f[2]])]

\* Machine::handleFsSendFileRequest: the response, then the copy process
handleFsSendFileRequest(w, i, req) ==
    LET serial == req.f[1]
        path == req.f[2]
    IN  IF ~w.mach[i].fuseClient
        THEN sendMessage(w, i, Msg("FsSendFileResponse", <<serial, 0>>))
        ELSE LET w1 == sendMessage(w, i, Msg("FsSendFileResponse", <<serial, 1>>))
             IN  [w1 EXCEPT !.mach[i].copies =
                                Append(@, [serial |-> serial, path |-> path])]

\* an onExit callback that reports every copy as done
copyExitedDone(w, i, p, exit_status) ==
    sendMessage(w, i, Msg("FsSendFileResult", <<p.serial, p.path, 1>>))

\* the onExit callback of the copy process p
copyExited(w, i, p, exit_status) ==
    sendMessage(w, i, Msg("FsSendFileResult",
                          <<p.serial, p.path, B2N(exit_status = 0)>>))

\* Machine::handleClipboardGetContentRequest
handleClipboardGetContentRequest(w, i, req) ==
    [w EXCEPT !.mach[i].reads = Append(@, req.f[1])]

\* the callback given to readTargetContent
clipboardRead(w, i, target, content) ==
    sendMessage(w, i, Msg("ClipboardGetContentResponse", <<target, content>>))

\* a switch with an arm for every variant, PairRequest included
HandledKindsAndPair ==
    { Kinds[k] : k \in 1..Len(Kinds) }

\* Machine::handleClipboardNotify
handleClipboardNotify(w, i, notify) ==
    LET targets == notify.f
        filled == IF /\ w.mach[i].os # DEVICE_OS_UOS
                     /\ \E k \in DOMAIN targets : targets[k] = clipboardFileTarget
                  THEN Append(targets, uriListTarget)
                  ELSE targets
    IN  [w EXCEPT !.mach[i].owned = filled]

\* the arms of the dispatcher's switch on msg.payload_case()
HandledKinds ==
    { "PairResponse", "ServiceOnOffNotification", "DeviceSharingStartRequest",
      "DeviceSharingStartResponse", "DeviceSharingStopRequest",
      "DeviceSharingStopResponse", "FlowDirectionNtf",
      "InputEventRequest", "InputEventResponse",
      "FsRequest", "FsResponse",
      "FsSendFileRequest", "FsSendFileResponse", "FsSendFileResult",
      "ClipboardGetContentRequest", "ClipboardGetContentResponse",
      "ClipboardNotify" }

\* one arm of the switch.  The arms of DeviceSharingStopResponse,
\* InputEventResponse, FsSendFileResponse and FsSendFileResult are empty; the
\* arm of ClipboardGetContentResponse changes the clipboard only, which is
\* not part of this state.
dispatchArm(w, i, msg) ==
    LET k == msg.kind
        w1 == [w EXCEPT !.mach[i].handled = Append(@, msg)]
    IN  CASE k = "PairResponse" -> handlePairResponseAux(w1, i, msg)
          [] k = "ServiceOnOffNotification" -> handleServiceOnOffMsg(w1, i, msg)
          [] k = "DeviceSharingStartRequest" -> handleDeviceSharingStartRequest(w1, i)
          [] k = "DeviceSharingStartResponse" -> handleDeviceSharingStartResponse(w1, i, msg)
          [] k = "DeviceSharingStopRequest" -> handleDeviceSharingStopRequest(w1, i)
          [] k = "FlowDirectionNtf" -> handleFlowDirectionNtf(w1, i, msg)
          [] k = "InputEventRequest" -> handleInputEventRequest(w1, i, msg)
          [] k = "FsRequest" -> handleFsRequest(w1, i)
          [] k = "FsResponse" -> handleFsResponse(w1, i, msg)
          [] k = "FsSendFileRequest" -> handleFsSendFileRequest(w1, i, msg)
          [] k = "ClipboardGetContentRequest" -> handleClipboardGetContentRequest(w1, i, msg)
          [] k = "ClipboardNotify" -> handleClipboardNotify(w1, i, msg)
          [] OTHER -> w1

\* a dispatcher with "if" for "while": one message to a read
dispatcherOnce(w, i) ==
    IF w.crashed \/ Len(w.mach[i].buf) < header_size THEN w
    ELSE LET res == parseMessage(w.mach[i].buf) IN
         IF res.err = "ILLEGAL_MESSAGE" THEN close(w, i)
         ELSE IF res.err = "PARTIAL_MESSAGE" THEN w
         ELSE LET w1 == [w EXCEPT !.mach[i].buf = res.rest] IN
              IF res.msg.kind \in HandledKinds
              THEN dispatchArm(w1, i, res.msg)
              ELSE close(w1, i)

\* Machine::dispatcher: the drain loop over the stream's read buffer.  pass
\* is one turn of the loop on the world w, arm what it does with the result
\* res of parseMessage; w and res are bound as the elements of one-element
\* sets, so that each is evaluated once per turn.
RECURSIVE dispatcher(_, _)
dispatcher(w0, i) ==
    LET arm(w, res) ==
            IF res.err = "ILLEGAL_MESSAGE" THEN close(w, i)
            ELSE IF res.err = "PARTIAL_MESSAGE" THEN w
            ELSE LET w1 == [w EXCEPT !.mach[i].buf = res.rest] IN
                 IF res.msg.kind \in HandledKinds
                 THEN dispatcher(dispatchArm(w1, i, res.msg), i)
                 ELSE close(w1, i)
        pass(w) ==
            IF w.crashed \/ Len(w.mach[i].buf) < header_size THEN w
            ELSE CHOOSE r \in {arm(w, res) : res \in {parseMessage(w.mach[i].buf)}} : TRUE
    IN  CHOOSE r \in {pass(w) : w \in {w0}} : TRUE

\* a receivedUserConfirm that writes the notification before the response
receivedUserConfirmLate(w, i, buff) ==
    LET w0 == [w EXCEPT !.mach[i].confirmDialog = FALSE] IN
    IF Len(buff) # 1 THEN w0
    ELSE LET isAccept == (buff[1] = ACCEPT)
             resp == Msg("PairResponse", <<SCAN_KEY, B2N(isAccept)>>)
         IN  IF isAccept
             THEN LET w2 == initConnection(w0, i)
                      w3 == [w2 EXCEPT !.mach[i].pingTimer = "stopped",
                                       !.mach[i].offlineTimer = "stopped",
                                       !.mach[i].connected = TRUE]
                  IN  sendMessage(sendServiceStatusNotification(w3, i), i, resp)
             ELSE close(sendMessage(w0, i, resp), i)

\* Machine::receivedUserConfirm
receivedUserConfirm(w, i, buff) ==
    LET w0 == [w EXCEPT !.mach[i].confirmDialog = FALSE] IN
    IF Len(buff) # 1 THEN w0
    ELSE LET isAccept == (buff[1] = ACCEPT)
             w1 == sendMessage(w0, i, Msg("PairResponse", <<SCAN_KEY, B2N(isAccept)>>))
         IN  IF isAccept
             THEN LET w2 == initConnection(w1, i)
                      w3 == [w2 EXCEPT !.mach[i].pingTimer = "stopped",
                                       !.mach[i].offlineTimer = "stopped",
                                       !.mach[i].connected = TRUE]
                  IN  sendServiceStatusNotification(w3, i)
             ELSE close(w1, i)

(***************************************************************************)
(* The event-loop callbacks and the calls made on a Machine.               *)
(***************************************************************************)
Apply(w) == mach' = w.mach /\ mgr' = w.mgr /\ crashed' = w.crashed /\ home' = home

\* a fresh stream behind m_conn
FreshStream(m, st, outbound) ==
    [m EXCEPT !.conn = st, !.wired = FALSE, !.buf = <<>>, !.out = <<>>, !.tx = 0,
              !.handled = <<>>, !.outbound = outbound]

\* Machine::connect
Connect(i) ==
    /\ ~crashed
    /\ mach' = [mach EXCEPT ![i] = FreshStream(@, "connecting", TRUE)]
    /\ wire' = [wire EXCEPT ![i] = <<>>]
    /\ sent' = [sent EXCEPT ![i] = <<>>]
    /\ UNCHANGED <<mgr, home, crashed, used>>

\* the onConnected callback set by Machine::connect
onConnected(w, i) ==
    LET w1 == initConnection([w EXCEPT !.mach[i].conn = "open"], i)
        w2 == [w1 EXCEPT !.mach[i].pingTimer = "stopped",
                         !.mach[i].offlineTimer = "stopped"]
    IN  sendMessage(w2, i, Msg("PairRequest", <<SCAN_KEY>>))

StreamConnected(i) ==
    /\ ~crashed
    /\ mach[i].conn = "connecting"
    /\ Apply(onConnected(World, i))
    /\ UNCHANGED <<wire, sent, used>>

\* the onConnectFailed callback set by Machine::connect: Manager::ping(m_ip)
ConnectFailed(i) ==
    /\ ~crashed
    /\ mach[i].conn = "connecting"
    /\ mach' = [mach EXCEPT ![i].conn = "closed"]
    /\ UNCHANGED <<mgr, home, wire, sent, crashed, used>>

\* Machine::onPair
OnPair(i) ==
    /\ ~crashed
    /\ mach' = [mach EXCEPT ![i] = [FreshStream(@, "open", FALSE) EXCEPT !.confirmDialog = TRUE]]
    /\ wire' = [wire EXCEPT ![i] = <<>>]
    /\ sent' = [sent EXCEPT ![i] = <<>>]
    /\ UNCHANGED <<mgr, home, crashed, used>>

\* the confirm dialog's pipe delivers buff to Machine::receivedUserConfirm
UserConfirm(i, buff) ==
    /\ ~crashed
    /\ mach[i].confirmDialog
    /\ Apply(receivedUserConfirm(World, i, buff))
    /\ UNCHANGED <<wire, sent, used>>

\* Machine::receivedPing
ReceivedPing(i) ==
    /\ ~crashed
    /\ mach' = [mach EXCEPT ![i].offlineTimer = "running", ![i].pingTimer = "running"]
    /\ UNCHANGED <<mgr, home, wire, sent, crashed, used>>

\* the peer writes one frame
PeerSend(i, msg) ==
    /\ ~crashed
    /\ mach[i].conn = "open" /\ mach[i].wired
    /\ used.frames < MaxFrames
    /\ wire' = [wire EXCEPT ![i] = @ \o genMessage(msg)]
    /\ sent' = [sent EXCEPT ![i] = Append(@, msg)]
    /\ UNCHANGED <<mach, mgr, home, crashed>>
    /\ used' = [used EXCEPT !.frames = @ + 1]

\* the peer writes 16 bytes that are no MessageHeader
PeerSendBad(i, hdr) ==
    /\ ~crashed
    /\ mach[i].conn = "open" /\ mach[i].wired
    /\ used.frames < MaxFrames
    /\ wire' = [wire EXCEPT ![i] = @ \o hdr]
    /\ sent' = [sent EXCEPT ![i] = Append(@, Msg("Garbage", hdr))]
    /\ UNCHANGED <<mach, mgr, home, crashed>>
    /\ used' = [used EXCEPT !.frames = @ + 1]

\* the stream reads n bytes and calls onReceived (Machine::dispatcher)
ReceiveChunk(i, n) ==
    /\ ~crashed
    /\ mach[i].conn = "open" /\ mach[i].wired
    /\ n \in 1..Len(wire[i])
    /\ LET w == [World EXCEPT !.mach[i].buf = @ \o SubSeq(wire[i], 1, n)]
       IN  Apply(dispatcher(w, i))
    /\ wire' = [wire EXCEPT ![i] = SubSeq(@, n + 1, Len(@))]
    /\ UNCHANGED <<sent, used>>

\* the frames of one read, back to back
RECURSIVE Frames(_)
Frames(msgs) == IF msgs = <<>> THEN <<>> ELSE genMessage(Head(msgs)) \o Frames(Tail(msgs))

\* the peer writes msgs and the stream reads them in one piece
Deliver(i, msgs) ==
    /\ ~crashed
    /\ mach[i].conn = "open" /\ mach[i].wired
    /\ wire[i] = <<>>
    /\ used.frames + Len(msgs) <= MaxFrames
    /\ LET w == [World EXCEPT !.mach[i].buf = @ \o Frames(msgs)]
       IN  Apply(dispatcher(w, i))
    /\ used' = [used EXCEPT !.frames = @ + Len(msgs)]
    /\ UNCHANGED <<wire, sent>>

\* the stream's onClosed: after close(), or when the peer has closed
StreamClosed(i) ==
    /\ ~crashed
    /\ mach[i].conn = "closing" \/ (mach[i].conn = "open" /\ wire[i] = <<>>)
    /\ IF mach[i].wired
       THEN Apply(handleDisconnectedAux(World, i))
       ELSE /\ mach' = [mach EXCEPT ![i].conn = "closed"]
            /\ UNCHANGED <<mgr, home, crashed, used>>
    /\ wire' = [wire EXCEPT ![i] = <<>>]
    /\ UNCHANGED <<sent, used>>

\* the loop runs the next closure given to m_async->wake
AsyncWake(i) ==
    /\ ~crashed
    /\ mach[i].async # <<>>
    /\ Apply(wakeDeviceSharingStart([World EXCEPT !.mach[i].async = Tail(@)], i))
    /\ UNCHANGED <<wire, sent, used>>

\* Machine::requestDeviceSharing
requestDeviceSharing(w, i) == sendMessage(w, i, Msg("DeviceSharingStartRequest", <<>>))

RequestDeviceSharing(i) ==
    /\ ~crashed
    /\ used.ops < MaxOps
    /\ Apply(requestDeviceSharing(World, i))
    /\ used' = [used EXCEPT !.ops = @ + 1]
    /\ UNCHANGED <<wire, sent>>

\* Machine::stopDeviceSharing
stopDeviceSharing(w, i) ==
    stopDeviceSharingAux(sendMessage(w, i, Msg("DeviceSharingStopRequest", <<>>)), i)

StopDeviceSharing(i) ==
    /\ ~crashed
    /\ used.ops < MaxOps
    /\ Apply(stopDeviceSharing(World, i))
    /\ used' = [used EXCEPT !.ops = @ + 1]
    /\ UNCHANGED <<wire, sent>>

\* Machine::setFlowDirection
setFlowDirection(w, i, direction) ==
    IF w.mach[i].direction # direction
    THEN sendFlowDirectionNtf([w EXCEPT !.mach[i].direction = direction], i)
    ELSE w

\* the user of a sharing Machine moves the peer's screen to another edge
SetFlowDirection(i, direction) ==
    /\ ~crashed
    /\ mach[i].deviceSharing
    /\ Len(mach[i].out) < MaxOut
    /\ Apply(setFlowDirection(World, i, direction))
    /\ UNCHANGED <<wire, sent, used>>

\* Machine::disconnect
disconnect(w, i) == close(w, i)

Disconnect(i) ==
    /\ ~crashed
    /\ used.ops < MaxOps
    /\ Apply(disconnect(World, i))
    /\ used' = [used EXCEPT !.ops = @ + 1]
    /\ UNCHANGED <<wire, sent>>

\* the copy process at position k of copies exits with exit_status; the
\* callback ends with process->onExit(nullptr)
CopyExit(i, k, exit_status) ==
    /\ ~crashed
    /\ k \in 1..Len(mach[i].copies)
    /\ LET p == mach[i].copies[k]
           rest == [j \in 1..(Len(mach[i].copies) - 1) |->
                       IF j < k THEN mach[i].copies[j] ELSE mach[i].copies[j + 1]]
       IN  Apply(copyExited([World EXCEPT !.mach[i].copies = rest], i, p, exit_status))
    /\ UNCHANGED <<wire, sent, used>>

\* the clipboard delivers the content of the oldest pending read
ClipboardRead(i, content) ==
    /\ ~crashed
    /\ mach[i].reads # <<>>
    /\ Apply(clipboardRead([World EXCEPT !.mach[i].reads = Tail(@)], i,
                           Head(mach[i].reads), content))
    /\ UNCHANGED <<wire, sent, used>>

\* a copy process exits, or the clipboard delivers a read, after ~Machine:
\* the callback holds the this of the destroyed Machine.  What a use of the
\* freed object does is not defined: either the callback runs on what is
\* left of the Machine, or the daemon ends.
DanglingCallback(i, ends) ==
    /\ ~crashed
    /\ mach[i].removed
    /\ mach[i].copies # <<>> \/ mach[i].reads # <<>>
    /\ IF ends
       THEN /\ crashed' = TRUE
            /\ UNCHANGED <<mach, mgr, home, wire, sent, used>>
       ELSE \/ \E k \in DOMAIN mach[i].copies, exit_status \in {0, 1} :
                  CopyExit(i, k, exit_status)
            \/ \E content \in {5} : ClipboardRead(i, content)

\* the offline timer fires
OfflineFires(i) ==
    /\ ~crashed
    /\ ~mach[i].removed
    /\ mach[i].offlineTimer = "running"
    /\ Apply(onOffline(World, i))
    /\ UNCHANGED <<wire, sent, used>>

(***************************************************************************)
(* Spec: one Machine of the daemon and every callback and call it can      *)
(* get; its peer is an arbitrary client of the protocol, whose frames      *)
(* arrive one or two to a read.                                            *)
(***************************************************************************)
PeerMsgs ==
    { Msg("PairResponse", <<SCAN_KEY, 1>>), Msg("PairResponse", <<SCAN_KEY, 0>>),
      Msg("DeviceSharingStartRequest", <<>>), Msg("DeviceSharingStartResponse", <<1>>),
      Msg("DeviceSharingStopRequest", <<>>), Msg("PairRequest", <<SCAN_KEY>>),
      Msg("PairResponse", <<OTHER_KEY, 1>>) }

Init ==
    /\ mach = [i \in Ids |-> NewMachine]
    /\ \E c \in BOOLEAN :
          mgr = [d \in Daemons |->
                    [slot |-> None, sharedClipboard |-> c, sharedDevices |-> FALSE]]
    /\ home = [i \in Ids |-> 1]
    /\ wire = [i \in Ids |-> <<>>]
    /\ sent = [i \in Ids |-> <<>>]
    /\ crashed = FALSE
    /\ used = [frames |-> 0, ops |-> 0]

Next ==
    \E i \in {1} :
        \/ Connect(i)
        \/ StreamConnected(i)
        \/ ConnectFailed(i)
        \/ OnPair(i)
        \/ \E buff \in {<<ACCEPT>>, <<REJECT>>, <<ACCEPT, ACCEPT>>} : UserConfirm(i, buff)
        \/ ReceivedPing(i)
        \/ \E m1 \in PeerMsgs : Deliver(i, <<m1>>)
        \/ \E m1, m2 \in PeerMsgs : Deliver(i, <<m1, m2>>)
        \/ StreamClosed(i)
        \/ AsyncWake(i)
        \/ RequestDeviceSharing(i)
        \/ StopDeviceSharing(i)
        \/ Disconnect(i)

Spec == Init /\ [][Next]_vars

(***************************************************************************)
(* SpecShare: two Machines of one Manager, paired by the inbound path,     *)
(* whose peers use the device-sharing service.                             *)
(***************************************************************************)
ShareMsgs ==
    { Msg("DeviceSharingStartRequest", <<>>), Msg("DeviceSharingStartResponse", <<1>>),
      Msg("DeviceSharingStopRequest", <<>>) }

NextShare ==
    \E i \in Ids :
        \/ OnPair(i)
        \/ \E buff \in {<<ACCEPT>>, <<REJECT>>} : UserConfirm(i, buff)
        \/ \E m1 \in ShareMsgs : Deliver(i, <<m1>>)
        \/ StreamClosed(i)
        \/ AsyncWake(i)
        \/ RequestDeviceSharing(i)
        \/ StopDeviceSharing(i)

SpecShare == Init /\ [][NextShare]_vars

(***************************************************************************)
(* SpecCodec: one Machine, paired by the inbound path, whose peer writes   *)
(* frames with and without a handler arm, and headers that are no          *)
(* MessageHeader; the stream reads them in pieces of any size.             *)
(***************************************************************************)
CodecMsgs ==
    { Msg("PairResponse", <<SCAN_KEY, 1>>), Msg("PairResponse", <<SCAN_KEY, 0>>),
      Msg("DeviceSharingStartRequest", <<>>),
      Msg("FlowDirectionNtf", <<FLOW_DIRECTION_TOP>>),
      NotSet }

\* 16 bytes whose first 8 are not the magic: a wrong last byte, and a wrong
\* byte in front of a length no buffer holds
BadHeaders ==
    { <<68, 68, 69, 67, 80, 82, 84, 1,   0, 0, 0, 0, 0, 0, 0, 0>>,
      <<68, 68, 69, 0, 80, 82, 84, 0,    255, 255, 255, 255, 255, 255, 255, 255>> }

NextCodec ==
    \E i \in {1} :
        \/ OnPair(i)
        \/ UserConfirm(i, <<ACCEPT>>)
        \/ \E msg \in CodecMsgs : PeerSend(i, msg)
        \/ \E hdr \in BadHeaders : PeerSendBad(i, hdr)
        \/ \E n \in 1..Len(wire[i]) : ReceiveChunk(i, n)
        \/ StreamClosed(i)
        \/ AsyncWake(i)

SpecCodec == Init /\ [][NextCodec]_vars

(***************************************************************************)
(* SpecPair: two daemons.  Machine 1 is daemon 1's Machine for daemon 2    *)
(* and makes the stream with connect(); Machine 2 is daemon 2's Machine    *)
(* for daemon 1 and is given the accepted stream by its Manager, which     *)
(* has read the PairRequest.  What one Machine writes the other reads.     *)
(* The loop sends what is queued, reads what has arrived and delivers      *)
(* onClosed: these steps are weakly fair.                                  *)
(***************************************************************************)
Peer(i) == IF i = 1 THEN 2 ELSE 1

Idle(m) == m.conn \in {"null", "closed"}

InitPair ==
    /\ mach = [i \in Ids |-> NewMachine]
    /\ mgr \in [Daemons -> { [slot |-> None, sharedClipboard |-> c, sharedDevices |-> FALSE] :
                                c \in BOOLEAN }]
    /\ home = [i \in Ids |-> i]
    /\ wire = [i \in Ids |-> <<>>]
    /\ sent = [i \in Ids |-> <<>>]
    /\ crashed = FALSE
    /\ used = [frames |-> 0, ops |-> 0]

\* the user of daemon 1 asks for the pairing while neither side has a stream
PairConnect ==
    /\ Idle(mach[1]) /\ Idle(mach[2])
    /\ Connect(1)

\* daemon 2's Manager accepts the stream, reads the PairRequest and calls
\* Machine::onPair on its Machine for daemon 1
ManagerPair ==
    /\ ~crashed
    /\ mach[1].conn = "open" /\ mach[1].outbound
    /\ mach[1].tx = 0 /\ mach[1].out # <<>>
    /\ parseMessage(mach[1].out[1]).msg.kind = "PairRequest"
    /\ Idle(mach[2])
    /\ mach' = [mach EXCEPT ![1].tx = 1,
                            ![2] = [FreshStream(@, "open", FALSE) EXCEPT !.confirmDialog = TRUE]]
    /\ wire' = [wire EXCEPT ![2] = <<>>]
    /\ UNCHANGED <<mgr, home, sent, crashed, used>>

\* the loop sends the next queued frame of Machine i; the peer's stream gets
\* it unless it is closed
Transmit(i) ==
    /\ ~crashed
    /\ mach[i].conn \in {"open", "closing"}
    /\ mach[i].tx < Len(mach[i].out)
    /\ i = 1 => mach[i].tx >= 1
    /\ mach' = [mach EXCEPT ![i].tx = @ + 1]
    /\ wire' = IF mach[Peer(i)].conn = "open"
               THEN [wire EXCEPT ![Peer(i)] = @ \o mach[i].out[mach[i].tx + 1]]
               ELSE wire
    /\ UNCHANGED <<mgr, home, sent, crashed, used>>

\* the other end of Machine i's stream is gone
PeerGone(i) ==
    /\ mach[i].conn = "open"
    /\ Idle(mach[Peer(i)])
    /\ i = 1 => mach[i].tx >= 1

\* onClosed of Machine i's stream: after its close(), or after the other end closed
StreamClosedPair(i) ==
    /\ mach[i].conn = "closing" \/ PeerGone(i)
    /\ StreamClosed(i)

NextPair ==
    \/ PairConnect
    \/ StreamConnected(1)
    \/ ConnectFailed(1)
    \/ ManagerPair
    \/ \E buff \in {<<ACCEPT>>, <<REJECT>>} : UserConfirm(2, buff)
    \/ \E i \in Ids :
          \/ ReceivedPing(i)
          \/ Transmit(i)
          \/ \E n \in 1..Len(wire[i]) : ReceiveChunk(i, n)
          \/ StreamClosedPair(i)

SpecPair ==
    /\ InitPair /\ [][NextPair]_vars
    /\ \A i \in Ids :
          /\ WF_vars(Transmit(i))
          /\ WF_vars(\E n \in 1..Len(wire[i]) : ReceiveChunk(i, n))
          /\ WF_vars(StreamClosedPair(i))

(***************************************************************************)
(* SpecFlow: the two daemons of SpecPair in a sharing session.  Daemon 1   *)
(* pairs with daemon 2 and asks for device sharing; once a side shares,    *)
(* its user may set the flow direction, while the write queue holds fewer  *)
(* than MaxOut frames.  Streams stay open and a read takes all that has    *)
(* arrived.                                                                *)
(***************************************************************************)
Directions ==
    {FLOW_DIRECTION_TOP, FLOW_DIRECTION_RIGHT, FLOW_DIRECTION_BOTTOM, FLOW_DIRECTION_LEFT}

InitFlow ==
    /\ mach = [i \in Ids |-> NewMachine]
    /\ mgr = [d \in Daemons |->
                 [slot |-> None, sharedClipboard |-> FALSE, sharedDevices |-> FALSE]]
    /\ home = [i \in Ids |-> i]
    /\ wire = [i \in Ids |-> <<>>]
    /\ sent = [i \in Ids |-> <<>>]
    /\ crashed = FALSE
    /\ used = [frames |-> 0, ops |-> 0]

NextFlow ==
    \/ PairConnect
    \/ StreamConnected(1)
    \/ ManagerPair
    \/ UserConfirm(2, <<ACCEPT>>)
    \/ mach[1].connected /\ RequestDeviceSharing(1)
    \/ \E i \in Ids :
          \/ Transmit(i)
          \/ ReceiveChunk(i, Len(wire[i]))
          \/ AsyncWake(i)
          \/ \E direction \in Directions : SetFlowDirection(i, direction)

SpecFlow == InitFlow /\ [][NextFlow]_vars

(***************************************************************************)
(* SpecService: one Machine that a peer pairs with while it has no stream, *)
(* and then uses: input                                                    *)
(* events, the file service, clipboard reads and device sharing, among     *)
(* them a PairRequest and a body that does not parse.  A read takes all    *)
(* the peer has written since the last one, one frame or more.  The        *)
(* stream may close at any time; the copy processes, the                   *)
(* clipboard reads and the async wakes finish whenever the loop gets to    *)
(* them.  Whether the injector's pipe takes an event and which port a      *)
(* FuseServer gets is the environment's choice.                            *)
(***************************************************************************)
Ports == {1, 2}

ServiceMsgs ==
    { Msg("InputEventRequest", <<7, MOUSE, 2, 0, 5>>),
      Msg("InputEventRequest", <<9, 3, 1, 1, 1>>),
      Msg("FsRequest", <<>>),
      Msg("FsResponse", <<1, 1>>),
      Msg("FsSendFileRequest", <<3, 1>>),
      Msg("ClipboardGetContentRequest", <<1>>),
      Msg("DeviceSharingStartRequest", <<>>),
      Msg("PairRequest", <<SCAN_KEY>>),
      NotSet }

InitService ==
    /\ \E ok \in BOOLEAN, p \in Ports :
          mach = [i \in Ids |-> [NewMachine EXCEPT !.emitOk = ok, !.ephemeral = p]]
    /\ mgr = [d \in Daemons |->
                 [slot |-> None, sharedClipboard |-> FALSE, sharedDevices |-> FALSE]]
    /\ home = [i \in Ids |-> 1]
    /\ wire = [i \in Ids |-> <<>>]
    /\ sent = [i \in Ids |-> <<>>]
    /\ crashed = FALSE
    /\ used = [frames |-> 0, ops |-> 0]

NextService ==
    \E i \in {1} :
        \/ mach[i].conn = "null" /\ OnPair(i)
        \/ UserConfirm(i, <<ACCEPT>>)
        \/ \E msg \in ServiceMsgs : PeerSend(i, msg)
        \/ ReceiveChunk(i, Len(wire[i]))
        \/ \E k \in 1..MaxFrames, exit_status \in {0, 1} : CopyExit(i, k, exit_status)
        \/ \E content \in {5} : ClipboardRead(i, content)
        \/ AsyncWake(i)
        \/ StreamClosed(i)
        \/ RequestDeviceSharing(i)

SpecService == InitService /\ [][NextService]_vars

(***************************************************************************)
(* SpecClipboard: one Machine, for a peer that runs UOS or another system, *)
(* paired by the inbound path; the peer announces what its clipboard       *)
(* holds, any list of up to MaxTargets targets.                            *)
(***************************************************************************)
MaxTargets == 2

Targets == {clipboardFileTarget, uriListTarget, textTarget}

TargetLists == UNION { [1..n -> Targets] : n \in 0..MaxTargets }

InitClipboard ==
    /\ \E os \in {DEVICE_OS_UOS, DEVICE_OS_LINUX} :
          mach = [i \in Ids |-> [NewMachine EXCEPT !.os = os]]
    /\ mgr = [d \in Daemons |->
                 [slot |-> None, sharedClipboard |-> TRUE, sharedDevices |-> FALSE]]
    /\ home = [i \in Ids |-> 1]
    /\ wire = [i \in Ids |-> <<>>]
    /\ sent = [i \in Ids |-> <<>>]
    /\ crashed = FALSE
    /\ used = [frames |-> 0, ops |-> 0]

NextClipboard ==
    \E i \in {1} :
        \/ mach[i].conn = "null" /\ OnPair(i)
        \/ UserConfirm(i, <<ACCEPT>>)
        \/ \E targets \in TargetLists : PeerSend(i, Msg("ClipboardNotify", targets))
        \/ ReceiveChunk(i, Len(wire[i]))
        \/ StreamClosed(i)

SpecClipboard == InitClipboard /\ [][NextClipboard]_vars

(***************************************************************************)
(* SpecTeardown: one Machine from pairing to its removal by the Manager:   *)
(* the peer has files copied, the clipboard read and sharing started, the  *)
(* stream closes, beacons re-arm the offline timer, and the timer fires    *)
(* while copy processes and clipboard reads may still be running.          *)
(***************************************************************************)
TeardownMsgs ==
    { Msg("FsResponse", <<1, 1>>), Msg("FsSendFileRequest", <<3, 1>>),
      Msg("ClipboardGetContentRequest", <<1>>),
      Msg("DeviceSharingStartRequest", <<>>) }

NextTeardown ==
    \E i \in {1} :
        \/ /\ ~mach[i].removed
           /\ \/ mach[i].conn = "null" /\ OnPair(i)
              \/ UserConfirm(i, <<ACCEPT>>)
              \/ \E msg \in TeardownMsgs : PeerSend(i, msg)
              \/ ReceiveChunk(i, Len(wire[i]))
              \/ StreamClosed(i)
              \/ ReceivedPing(i)
              \/ AsyncWake(i)
              \/ \E k \in 1..MaxFrames, exit_status \in {0, 1} : CopyExit(i, k, exit_status)
              \/ \E content \in {5} : ClipboardRead(i, content)
        \/ OfflineFires(i)
        \/ \E ends \in BOOLEAN : DanglingCallback(i, ends)

SpecTeardown == Init /\ [][NextTeardown]_vars

(***************************************************************************)
(* SpecOffline: the Machines of one Manager from creation to removal:      *)
(* pairing by either path, beacons, the close of the stream, and the       *)
(* offline timer, which fires if it is left running.  The ping timer's     *)
(* callback only has the Manager send a scan and changes no Machine.       *)
(***************************************************************************)
NextOffline ==
    \E i \in Ids :
        \/ /\ ~mach[i].removed
           /\ \/ Connect(i)
              \/ StreamConnected(i)
              \/ ConnectFailed(i)
              \/ OnPair(i)
              \/ \E buff \in {<<ACCEPT>>, <<REJECT>>} : UserConfirm(i, buff)
              \/ ReceivedPing(i)
              \/ \E agree \in {0, 1} : Deliver(i, <<Msg("PairResponse", <<SCAN_KEY, agree>>)>>)
              \/ StreamClosed(i)
              \/ Disconnect(i)
        \/ OfflineFires(i)

SpecOffline ==
    /\ Init /\ [][NextOffline]_vars
    /\ \A i \in Ids : WF_vars(OfflineFires(i))

(***************************************************************************)
(* Claims.                                                                 *)
(***************************************************************************)

\* the bytes the peer has written for msgs, and what is known of them
FrameOf(m) == IF m.kind = "Garbage" THEN m.f ELSE genMessage(m)

RECURSIVE StreamOf(_)
StreamOf(msgs) == IF msgs = <<>> THEN <<>> ELSE FrameOf(Head(msgs)) \o StreamOf(Tail(msgs))

\* how many of the leading frames of msgs lie within the first n bytes
RECURSIVE Complete(_, _)
Complete(msgs, n) ==
    IF msgs = <<>> \/ Len(FrameOf(Head(msgs))) > n THEN 0
    ELSE 1 + Complete(Tail(msgs), n - Len(FrameOf(Head(msgs))))

\* the bytes of the peer's stream the Machine's stream has read
Fed(i) == Len(StreamOf(sent[i])) - Len(wire[i])

Reading(i) == mach[i].wired /\ mach[i].conn \in {"open", "closing"}

MagicBytes == <<68, 68, 69, 67, 80, 82, 84, 0>>

\* C1: in every reachable state of every Machine, deviceSharing = true
\* implies connected = true.
C1_SharingImpliesConnected ==
    \A i \in Ids : mach[i].deviceSharing => mach[i].connected

\* C2: at most one Machine of the Manager's peer map has deviceSharing = true
\* at any time.
C2_AtMostOneSharing ==
    Cardinality({i \in Ids : mach[i].deviceSharing}) <= 1

\* C3: when what the dispatcher is fed is the concatenation of the frames of
\* messages with handled variants, the handlers taken are exactly the messages
\* whose frames have been fed, in order, once each; the buffer holds only the
\* bytes of the frame still incomplete, and is empty once all is fed.
C3_DispatcherDrain ==
    \A i \in Ids :
        (Reading(i) /\ \A k \in DOMAIN sent[i] : sent[i][k].kind \in HandledKinds) =>
            LET k == Complete(sent[i], Fed(i))
                done == Len(StreamOf(SubSeq(sent[i], 1, k)))
            IN  /\ mach[i].handled = SubSeq(sent[i], 1, k)
                /\ mach[i].buf = SubSeq(StreamOf(sent[i]), done + 1, Fed(i))
                /\ (wire[i] = <<>> => mach[i].handled = sent[i] /\ mach[i].buf = <<>>)

C3_Witness ==
    \E i \in Ids :
        /\ Reading(i) /\ wire[i] = <<>> /\ Len(sent[i]) >= 2
        /\ mach[i].handled = sent[i] /\ mach[i].buf = <<>>
        /\ sent[i][1] # sent[i][2]

\* C4: on every read of a stream the buffer then starts with the bytes of the
\* frame of one message m.  While the last byte of the frame has not arrived,
\* the decode (made once the buffer holds a header) yields PARTIAL_MESSAGE and
\* the read consumes nothing and takes no handler; once it has arrived the
\* decode yields m, consumes header_size + length bytes and leaves what
\* trails the frame, and a handled m is the next handler taken.
C4_PartialRobustness ==
    [][\A i \in Ids :
        (/\ mach[i].wired /\ mach[i].conn = "open"
         /\ Len(wire'[i]) < Len(wire[i]) /\ sent'[i] = sent[i]
         /\ Complete(sent[i], Fed(i)) < Len(sent[i])
         /\ sent[i][Complete(sent[i], Fed(i)) + 1].kind # "Garbage") =>
            LET k == Complete(sent[i], Fed(i))
                m == sent[i][k + 1]
                b == mach[i].buf \o SubSeq(wire[i], 1, Len(wire[i]) - Len(wire'[i]))
                e == ByteSizeLong(m)
            IN  IF Len(b) < header_size + e
                THEN /\ mach'[i].buf = b
                     /\ mach'[i].handled = mach[i].handled
                     /\ Len(b) >= header_size =>
                            parseMessage(b) = [err |-> "PARTIAL_MESSAGE", msg |-> NotSet, rest |-> b]
                ELSE /\ parseMessage(b) =
                            [err |-> "OK", msg |-> m,
                             rest |-> SubSeq(b, header_size + e + 1, Len(b))]
                     /\ m.kind \in HandledKinds =>
                            /\ Len(mach'[i].handled) > Len(mach[i].handled)
                            /\ mach'[i].handled[Len(mach[i].handled) + 1] = m
      ]_vars

\* a frame that arrived in pieces: a stream still open that has read a whole
\* frame and part of the next
C4_Witness ==
    \E i \in Ids :
        /\ mach[i].conn = "open" /\ Len(mach[i].handled) = 1
        /\ Len(mach[i].buf) > header_size /\ wire[i] # <<>>

\* C5: a read that leaves the dispatcher with a buffer of at least a header
\* whose first 8 bytes are not the magic closes the connection, takes no
\* handler and leaves the buffer as it is, whatever the length field says;
\* and once the stream has read such a header behind the frames of handled
\* messages, the connection is closing, the handlers taken are those of the
\* frames in front of it and the buffer holds the header and all that was
\* read after it.
C5_MagicRejection ==
    /\ [][\A i \in Ids :
            LET b == mach[i].buf \o SubSeq(wire[i], 1, Len(wire[i]) - Len(wire'[i])) IN
            (/\ mach[i].wired /\ mach[i].conn = "open"
             /\ Len(wire'[i]) < Len(wire[i]) /\ sent'[i] = sent[i]
             /\ Len(b) >= header_size
             /\ SubSeq(b, 1, 8) # MagicBytes) =>
                /\ parseMessage(b).err = "ILLEGAL_MESSAGE"
                /\ mach'[i].conn = "closing"
                /\ mach'[i].buf = b
                /\ mach'[i].handled = mach[i].handled
                /\ mach'[i].out = mach[i].out
         ]_vars
    /\ [](\A i \in Ids : \A g \in DOMAIN sent[i] :
            LET before == Len(StreamOf(SubSeq(sent[i], 1, g - 1))) IN
            (/\ Reading(i)
             /\ sent[i][g].kind = "Garbage"
             /\ \A j \in 1..(g - 1) : sent[i][j].kind \in HandledKinds
             /\ Fed(i) >= before + header_size) =>
                /\ mach[i].conn = "closing"
                /\ mach[i].handled = SubSeq(sent[i], 1, g - 1)
                /\ mach[i].buf = SubSeq(StreamOf(sent[i]), before + 1, Fed(i)))

\* a header whose magic is wrong in its last byte only, rejected behind the
\* frame of a handled message
C5_Witness ==
    \E i \in Ids :
        /\ mach[i].conn = "closing" /\ Len(mach[i].buf) >= header_size
        /\ SubSeq(mach[i].buf, 1, 7) = SubSeq(MagicBytes, 1, 7)
        /\ mach[i].buf[8] # 0
        /\ Len(sent[i]) = 2 /\ sent[i][2].kind = "Garbage"
        /\ mach[i].handled = <<sent[i][1]>>

\* C6: the frame genMessage makes of a message m is the magic, the size of
\* the serialized body as 8 bytes in network byte order, and the body;
\* parseMessage on exactly those bytes returns m and empties the buffer.
C6_RoundTrip ==
    \A i \in Ids : \A k \in DOMAIN sent[i] :
        sent[i][k].kind # "Garbage" =>
            LET m == sent[i][k]
                e == genMessage(m)
            IN  /\ SubSeq(e, 1, 8) = MagicBytes
                /\ SubSeq(e, 9, 16) = <<0, 0, 0, 0, 0, 0, 0, Len(e) - header_size>>
                /\ Len(e) - header_size = Len(SerializeToArray(m))
                /\ parseMessage(e) = [err |-> "OK", msg |-> m, rest |-> <<>>]

C6_Witness ==
    \E i \in Ids : \E k \in DOMAIN sent[i] :
        /\ sent[i][k].kind = "PairResponse"
        /\ Reading(i) /\ wire[i] = <<>> /\ mach[i].handled = sent[i]

Last(q) == q[Len(q)]

ServiceFrame(i) ==
    genMessage(Msg("ServiceOnOffNotification",
                   <<B2N(mgr[home[i]].sharedClipboard), B2N(mgr[home[i]].sharedDevices)>>))

PairFrame(agree) == genMessage(Msg("PairResponse", <<SCAN_KEY, agree>>))

IsService(frame) == parseMessage(frame).msg.kind = "ServiceOnOffNotification"

\* the Paired state the claims speak of
PairedState(m) ==
    /\ m.connected /\ m.wired
    /\ m.pingTimer = "stopped" /\ m.offlineTimer = "stopped"
    /\ ~m.deviceSharing

\* C7: whichever path completes the pairing (the PairResponse(agree=true)
\* handled on the stream connect() made, or the ACCEPT byte on the stream
\* given to onPair()), the Machine is then in the same Paired state
\* (connected, both timers stopped, the stream wired to the session,
\* deviceSharing = false) and the frame it has just written is the
\* ServiceOnOffNotification of the Manager's switches.
C7_PairCommutativity ==
    [][\A i \in Ids :
        (/\ ~mach[i].connected /\ mach'[i].connected
         /\ Len(mach'[i].handled) <= Len(mach[i].handled) + 1) =>
            /\ PairedState(mach'[i])
            /\ mach'[i].out # <<>> /\ Last(mach'[i].out) = ServiceFrame(i)
      ]_vars

\* the stream connect() made, after PairRequest and before any PairResponse
AwaitingPair(m) ==
    /\ m.outbound /\ m.conn = "open" /\ m.wired /\ ~m.connected
    /\ \A k \in DOMAIN m.handled : m.handled[k].kind # "PairResponse"

\* the first PairResponse handled on the stream connect() made was a refusal,
\* and the close it asked for has not completed
RejectedClosing(m) ==
    /\ m.outbound /\ m.conn = "closing" /\ m.wired
    /\ \E k \in DOMAIN m.handled :
          /\ m.handled[k] = Msg("PairResponse", <<SCAN_KEY, 0>>)
          /\ \A j \in 1..(k - 1) : m.handled[j].kind # "PairResponse"

\* C9: from the moment the initiating Machine in AwaitingPair has handled
\* PairResponse(agree=false) until the close completes, the stream is closing,
\* connected is false and no ServiceOnOffNotification has been written; when
\* the close completes the Machine is Idle: no connection, connected = false,
\* deviceSharing = false.
C9_PairRejected ==
    /\ [][\A i \in Ids :
            (/\ AwaitingPair(mach[i])
             /\ Len(mach'[i].handled) > Len(mach[i].handled)
             /\ mach'[i].handled[Len(mach[i].handled) + 1] = Msg("PairResponse", <<SCAN_KEY, 0>>)) =>
                RejectedClosing(mach'[i])
         ]_vars
    /\ [](\A i \in Ids :
            RejectedClosing(mach[i]) =>
                /\ ~mach[i].connected
                /\ \A k \in DOMAIN mach[i].out : ~IsService(mach[i].out[k]))
    /\ [][\A i \in Ids :
            (RejectedClosing(mach[i]) /\ mach'[i].conn \in {"null", "closed"}) =>
                /\ mach'[i].conn = "null"
                /\ ~mach'[i].connected /\ ~mach'[i].deviceSharing
         ]_vars

\* the Paired state of the state table: the session runs on an open stream
Paired(m) == m.connected /\ m.wired /\ m.conn = "open" /\ ~m.deviceSharing

\* the user of daemon 2 has pressed ACCEPT for the stream Machine 1 made
Accepted ==
    /\ ~mach[2].outbound /\ mach[2].connected /\ mach[2].wired
    /\ mach[1].outbound /\ mach[1].tx >= 1

RejectedInbound(m) ==
    /\ ~m.outbound /\ ~m.wired /\ ~m.confirmDialog
    /\ m.out = <<PairFrame(0)>>

\* C10: the REJECT byte makes the receiving Machine write PairResponse
\* (agree=false) and close the stream without setting connected; when the
\* close completes the Machine is Idle: it owns no connection, so that
\* sendMessage is a no-op.
C10_UserRejected ==
    /\ [][\A i \in Ids :
            (/\ mach[i].confirmDialog /\ ~mach[i].outbound /\ mach[i].conn = "open"
             /\ ~mach[i].connected /\ mach[i].out = <<>>
             /\ ~mach'[i].confirmDialog /\ mach'[i].out = <<PairFrame(0)>>) =>
                mach'[i].conn = "closing" /\ ~mach'[i].connected
         ]_vars
    /\ [][\A i \in Ids :
            (/\ RejectedInbound(mach[i]) /\ ~mach[i].connected
             /\ mach[i].conn = "closing" /\ mach'[i].conn # "closing"
             /\ RejectedInbound(mach'[i])) =>
                /\ mach'[i].conn = "null"
                /\ ~mach'[i].connected
                /\ sendMessage([World EXCEPT !.mach = mach'], i, NotSet).mach = mach'
         ]_vars

\* C11: whenever a Machine has connected = true, both its pingTimer and its
\* offlineTimer are stopped, whatever events came before, a discovery beacon
\* (receivedPing) on the connected Machine among them.
C11_ConnectedTimersStopped ==
    \A i \in Ids :
        mach[i].connected =>
            mach[i].pingTimer = "stopped" /\ mach[i].offlineTimer = "stopped"

\* a Machine in Idle that the Manager of a running daemon still keeps
IdleKept(m) == ~crashed /\ m.conn = "null" /\ ~m.removed

\* C12: while the daemon runs, a Machine in Idle, whether fresh or back in
\* Idle after its stream closed or its pairing was rejected, does not stay
\* there for ever: unless it leaves Idle by a new pairing, its offline timer
\* fires and the Manager removes it.
C12_IdleRemoved ==
    \A i \in Ids : IdleKept(mach[i]) ~> ~IdleKept(mach[i])

\* messages of the three callers of sendMessage that take no other state
SendMsgs ==
    { Msg("DeviceSharingStartRequest", <<>>), Msg("FsResponse", <<0, 0>>),
      Msg("ClipboardGetContentResponse", <<1, 5>>) }

\* C13: in every state the Machine can be in, sendMessage(a) on a reset
\* connection changes nothing at all, and on an owned connection changes
\* nothing but the connection's write queue, which gets the one frame
\* genMessage(a) at its end; a second sendMessage(b) puts its frame behind
\* the first, so that frames are queued in the order of the calls.
C13_SendMessage ==
    \A i \in Ids : \A a \in SendMsgs :
        LET w == sendMessage(World, i, a) IN
        IF mach[i].conn = "null"
        THEN w = World
        ELSE /\ w = [World EXCEPT !.mach[i].out = Append(@, genMessage(a))]
             /\ \A b \in SendMsgs :
                    sendMessage(w, i, b) =
                        [World EXCEPT !.mach[i].out = @ \o <<genMessage(a), genMessage(b)>>]

\* requestDeviceSharing has called sendMessage on an owned connection that
\* had frames queued
C13_Witness ==
    \E i \in Ids :
           /\ used.ops > 0 /\ Len(mach[i].out) >= 2
           /\ Last(mach[i].out) = genMessage(Msg("DeviceSharingStartRequest", <<>>))
           /\ mach[i].conn = "open"

\* a step of Machine i that runs a continuation left by a handler: an async
\* wake, the exit of a copy process, or a clipboard read
Continuation(i) ==
    \/ Len(mach'[i].async) < Len(mach[i].async)
    \/ Len(mach'[i].copies) < Len(mach[i].copies)
    \/ Len(mach'[i].reads) < Len(mach[i].reads)

\* C14: a continuation that a handler scheduled before the stream closed and
\* that runs after it (the connection is reset) is a no-op: nothing is
\* queued for writing, deviceSharing and direction keep their values, and
\* the Manager's sharing slot is not touched.
C14_ContinuationsCancelled ==
    [][\A i \in Ids :
        (mach[i].conn = "null" /\ Continuation(i)) =>
            /\ mach'[i].out = mach[i].out
            /\ mach'[i].deviceSharing = mach[i].deviceSharing
            /\ mach'[i].direction = mach[i].direction
            /\ mgr' = mgr
      ]_vars

\* what a step has added at the end of a sequence
Added(old, new) == SubSeq(new, Len(old) + 1, Len(new))

\* the step is a read of Machine i's stream that took handlers
Handling(i) ==
    /\ Len(mach'[i].handled) > Len(mach[i].handled)
    /\ SubSeq(mach'[i].handled, 1, Len(mach[i].handled)) = mach[i].handled

\* the messages of variant kind among msgs
OfKind(msgs, kind) == SelectSeq(msgs, LAMBDA m : m.kind = kind)

\* the messages the frames hold
Decoded(frames) == [k \in DOMAIN frames |-> parseMessage(frames[k]).msg]

\* C15: the InputEventRequests a read handles are answered, in order, by one
\* InputEventResponse each that carries the request's serial; success is
\* false and nothing is injected when no emittor exists for the devicetype,
\* otherwise (type, code, value) is given once to that emittor and success is
\* the emittor's result.
C15_InputEvent ==
    [][\A i \in Ids :
        Handling(i) =>
            LET reqs == OfKind(Added(mach[i].handled, mach'[i].handled), "InputEventRequest")
                resps == OfKind(Decoded(Added(mach[i].out, mach'[i].out)), "InputEventResponse")
                known == SelectSeq(reqs, LAMBDA r : r.f[2] \in InputDeviceTypes)
            IN  /\ resps = [k \in DOMAIN reqs |->
                              Msg("InputEventResponse",
                                  <<reqs[k].f[1],
                                    IF reqs[k].f[2] \in InputDeviceTypes
                                    THEN B2N(mach[i].emitOk) ELSE 0>>)]
                /\ Added(mach[i].emitted, mach'[i].emitted) =
                       [k \in DOMAIN known |->
                           <<known[k].f[2], known[k].f[3], known[k].f[4], known[k].f[5]>>]
                /\ SubSeq(mach'[i].emitted, 1, Len(mach[i].emitted)) = mach[i].emitted
      ]_vars

\* one read has handled a request for the mouse and one for a devicetype
\* without emittor, and the pipe has refused the event
C15_Witness ==
    \E i \in Ids :
        /\ ~mach[i].emitOk
        /\ Len(mach[i].emitted) = 1
        /\ Len(OfKind(mach[i].handled, "InputEventRequest")) = 2
        /\ Len(OfKind(Decoded(mach[i].out), "InputEventResponse")) = 2

\* C16: a Machine has at most one FuseServer.  Of the FsRequests a read
\* handles, one that finds a server running is answered FsResponse(accepted =
\* false, port = 0) and leaves that server as it is; one that finds none
\* starts a server and is answered FsResponse(accepted = true, port = the
\* port of that server).
C16_FsRequest ==
    [][\A i \in Ids :
        Handling(i) =>
            LET reqs == OfKind(Added(mach[i].handled, mach'[i].handled), "FsRequest")
                resps == OfKind(Decoded(Added(mach[i].out, mach'[i].out)), "FsResponse")
                running == mach[i].fuseServer # 0
            IN  /\ resps = [k \in DOMAIN reqs |->
                              IF running \/ k > 1
                              THEN Msg("FsResponse", <<0, 0>>)
                              ELSE Msg("FsResponse", <<1, mach'[i].fuseServer>>)]
                /\ running \/ reqs = <<>> => mach'[i].fuseServer = mach[i].fuseServer
                /\ ~running /\ reqs # <<>> => mach'[i].fuseServer \in Ports
      ]_vars

\* a second FsRequest has been refused while the server of the first runs
C16_Witness ==
    \E i \in Ids :
        /\ mach[i].fuseServer \in Ports
        /\ Len(OfKind(mach[i].handled, "FsRequest")) = 2
        /\ OfKind(Decoded(mach[i].out), "FsResponse") =
               <<Msg("FsResponse", <<1, mach[i].fuseServer>>), Msg("FsResponse", <<0, 0>>)>>

\* what handleFsSendFileRequest answers to the FsSendFileRequests among msgs,
\* and the copy processes it starts, when client says whether a FuseClient
\* exists before the first of msgs (an accepted FsResponse makes one)
RECURSIVE SendFileAnswers(_, _)
SendFileAnswers(msgs, client) ==
    IF msgs = <<>> THEN <<>>
    ELSE LET m == Head(msgs) IN
         IF m.kind = "FsSendFileRequest"
         THEN <<Msg("FsSendFileResponse", <<m.f[1], B2N(client)>>)>>
                  \o SendFileAnswers(Tail(msgs), client)
         ELSE SendFileAnswers(Tail(msgs), client \/ (m.kind = "FsResponse" /\ m.f[1] # 0))

RECURSIVE Spawned(_, _)
Spawned(msgs, client) ==
    IF msgs = <<>> THEN <<>>
    ELSE LET m == Head(msgs) IN
         IF m.kind = "FsSendFileRequest"
         THEN (IF client THEN <<[serial |-> m.f[1], path |-> m.f[2]]>> ELSE <<>>)
                  \o Spawned(Tail(msgs), client)
         ELSE Spawned(Tail(msgs), client \/ (m.kind = "FsResponse" /\ m.f[1] # 0))

\* C17: an FsSendFileRequest{serial, path} handled while the Machine has no
\* FuseClient is answered FsSendFileResponse{serial, accepted = false} and
\* starts no copy process (one handled with a FuseClient is accepted and
\* starts one); and an FsSendFileResult is only ever written by the exit of a
\* copy process, with that process's serial, so that none follows a refused
\* request.
C17_SendFileRefused ==
    [][\A i \in Ids :
        LET msgs == Added(mach[i].handled, mach'[i].handled)
            wrote == Decoded(Added(mach[i].out, mach'[i].out))
            results == OfKind(wrote, "FsSendFileResult")
        IN  /\ Handling(i) =>
                  /\ OfKind(wrote, "FsSendFileResponse") = SendFileAnswers(msgs, mach[i].fuseClient)
                  /\ mach'[i].copies = mach[i].copies \o Spawned(msgs, mach[i].fuseClient)
                  /\ results = <<>>
            /\ results # <<>> =>
                  /\ Len(results) = 1
                  /\ Len(mach'[i].copies) = Len(mach[i].copies) - 1
                  /\ \E k \in DOMAIN mach[i].copies :
                        /\ mach[i].copies[k].serial = results[1].f[1]
                        /\ mach[i].copies[k].path = results[1].f[2]
      ]_vars

\* a request has been refused for want of a FuseClient: no copy runs
C17_Witness ==
    \E i \in Ids :
        /\ ~mach[i].fuseClient /\ mach[i].copies = <<>>
        /\ mach[i].handled # <<>> /\ mach[i].out # <<>>
        /\ Last(mach[i].handled) = Msg("FsSendFileRequest", <<3, 1>>)
        /\ Last(mach[i].out) = genMessage(Msg("FsSendFileResponse", <<3, 0>>))

\* a message for which the dispatcher's switch has no arm: no payload set, or
\* a PairRequest
NoArm(m) == m.kind \in {"NotSet", "PairRequest"}

\* the position of the first message without arm among msgs, 0 if none
FirstNoArm(msgs) ==
    IF \E k \in DOMAIN msgs : NoArm(msgs[k])
    THEN CHOOSE k \in DOMAIN msgs : NoArm(msgs[k]) /\ \A j \in 1..(k - 1) : ~NoArm(msgs[j])
    ELSE 0

\* C18: of the messages the peer has written on a stream, only those in front
\* of the first one without a handler arm are ever handled; once the frame of
\* that one has been read the connection is closed, and what follows it, in
\* the same buffer or later, is not handled.
C18_NoArmCloses ==
    \A i \in Ids :
        LET n == FirstNoArm(sent[i])
            h == Len(mach[i].handled)
        IN  /\ h <= Len(sent[i]) /\ mach[i].handled = SubSeq(sent[i], 1, h)
            /\ n > 0 => h < n
            /\ (n > 0 /\ Complete(sent[i], Fed(i)) >= n) =>
                   /\ mach[i].conn # "open"
                   /\ mach[i].handled = SubSeq(sent[i], 1, n - 1)

\* one read held a message without arm and a handled one behind it: the
\* connection is closing and the second was left in the buffer
C18_Witness ==
    \E i \in Ids :
        /\ mach[i].conn = "closing" /\ wire[i] = <<>>
        /\ Len(sent[i]) = 2 /\ NoArm(sent[i][1]) /\ ~NoArm(sent[i][2])
        /\ mach[i].handled = <<>>
        /\ mach[i].buf = genMessage(sent[i][2])

\* an unfinished pair handshake: the stream made by connect() has not
\* connected yet or its PairRequest is unanswered, or the confirm dialog of
\* the stream given to onPair() has no answer from the user
OutboundInFlight(m) == m.outbound /\ m.conn \in {"connecting", "open"} /\ ~m.connected

InboundInFlight(m) == ~m.outbound /\ m.conn = "open" /\ m.confirmDialog

\* C19: while a pair handshake is unfinished, no connect() or onPair()
\* replaces the connection it runs on or its confirm dialog: the stream of an
\* outbound handshake stays the Machine's stream (it is not made anew, and no
\* inbound stream with a dialog takes its place), and so does the stream of
\* an inbound one.
C19_OneHandshake ==
    [][\A i \in Ids :
        /\ OutboundInFlight(mach[i]) =>
              /\ mach'[i].outbound /\ ~mach'[i].confirmDialog
              /\ mach[i].conn = "open" => mach'[i].conn # "connecting"
        /\ InboundInFlight(mach[i]) => ~mach'[i].outbound
      ]_vars

\* C20: a PairResponse whose key is not the scan key is rejected: a read that
\* handles no PairResponse with the scan key does not set connected = true.
C20_KeyChecked ==
    [][\A i \in Ids :
        (/\ Handling(i) /\ ~mach[i].connected
         /\ \A k \in (Len(mach[i].handled) + 1)..Len(mach'[i].handled) :
                mach'[i].handled[k].kind = "PairResponse" =>
                    mach'[i].handled[k].f[1] # SCAN_KEY) =>
            ~mach'[i].connected
      ]_vars

\* does the list hold the target
Holds(targets, t) == \E k \in DOMAIN targets : targets[k] = t

\* C21: after a ClipboardNotify(targets) has been handled, what the Manager
\* was given is the received targets with text/uri-list appended when the
\* peer is not UOS, x-special/gnome-copied-files is among them and
\* text/uri-list is not; in every other case it is exactly the received
\* targets.
C21_ClipboardNotify ==
    \A i \in Ids :
        (mach[i].handled # <<>> /\ Last(mach[i].handled).kind = "ClipboardNotify") =>
            LET targets == Last(mach[i].handled).f IN
            mach[i].owned =
                IF /\ mach[i].os # DEVICE_OS_UOS
                   /\ Holds(targets, clipboardFileTarget)
                   /\ ~Holds(targets, uriListTarget)
                THEN Append(targets, uriListTarget)
                ELSE targets

\* C22: when the stream-closed callback of a Paired Machine has run, whatever
\* the state before it, the Machine is not connected and not sharing, owns no
\* FuseClient, no FuseServer and no connection, its ping timer runs again,
\* and the Manager's sharing slot is free if this Machine held it.
C22_Teardown ==
    [][\A i \in Ids :
        (mach[i].connected /\ mach[i].conn # "null" /\ mach'[i].conn = "null") =>
            /\ ~mach'[i].connected /\ ~mach'[i].deviceSharing
            /\ ~mach'[i].fuseClient /\ mach'[i].fuseServer = 0
            /\ mach'[i].pingTimer = "running"
            /\ mgr[home[i]].slot = i => mgr'[home[i]].slot = None
      ]_vars

\* the stream of a Machine that had started a FuseServer and had been asked
\* to share has closed
C22_Witness ==
    \E i \in Ids :
        /\ mach[i].conn = "null" /\ ~mach[i].connected
        /\ OfKind(mach[i].handled, "FsRequest") # <<>>
        /\ OfKind(mach[i].handled, "DeviceSharingStartRequest") # <<>>
        /\ mach[i].async = <<>>
        /\ mach[i].fuseServer = 0 /\ mgr[home[i]].slot = None

\* the FsSendFileResult the exit of the copy process p writes
ResultOf(p, exit_status) ==
    Msg("FsSendFileResult", <<p.serial, p.path, B2N(exit_status = 0)>>)

\* what a read does about FsSendFileRequests: every accepted one has its
\* FsSendFileResponse written and one copy process started, and no
\* FsSendFileResult is written by the read
AcceptedThenCopy(i) ==
    Handling(i) =>
        LET wrote == Decoded(Added(mach[i].out, mach'[i].out))
            accepted == SelectSeq(OfKind(wrote, "FsSendFileResponse"), LAMBDA m : m.f[2] = 1)
            started == Added(mach[i].copies, mach'[i].copies)
        IN  /\ OfKind(wrote, "FsSendFileResult") = <<>>
            /\ started = [k \in DOMAIN accepted |->
                             [serial |-> accepted[k].f[1], path |-> started[k].path]]
            /\ Len(started) = Len(accepted)

\* a FsSendFileResult is written only by the exit of a copy process
ResultOnlyAtExit(i) ==
    OfKind(Decoded(Added(mach[i].out, mach'[i].out)), "FsSendFileResult") # <<>> =>
        Len(mach'[i].copies) = Len(mach[i].copies) - 1

\* C23 as stated: for every FsSendFileRequest{serial, path} handled with a
\* FuseClient, FsSendFileResponse{serial, accepted = true} is written first,
\* and the exit of the copy process writes exactly one FsSendFileResult{
\* serial, path, result} with result = true iff the exit status is 0; no
\* Result is written before the exit.
C23_ResultAfterExit ==
    [][\A i \in Ids :
        /\ AcceptedThenCopy(i)
        /\ ResultOnlyAtExit(i)
        /\ \A k \in DOMAIN mach[i].copies : \A exit_status \in {0, 1} :
              CopyExit(i, k, exit_status) =>
                  mach'[i].out =
                      Append(mach[i].out, genMessage(ResultOf(mach[i].copies[k], exit_status)))
      ]_vars

\* C23 amended: as stated when the Machine owns a connection at the time the
\* copy process exits, the Result going to that connection; when the
\* connection has been reset by then, the exit writes nothing.
C23_ResultAfterExitOwned ==
    [][\A i \in Ids :
        /\ AcceptedThenCopy(i)
        /\ ResultOnlyAtExit(i)
        /\ \A k \in DOMAIN mach[i].copies : \A exit_status \in {0, 1} :
              CopyExit(i, k, exit_status) =>
                  mach'[i].out =
                      IF mach[i].conn = "null" THEN mach[i].out
                      ELSE Append(mach[i].out,
                                  genMessage(ResultOf(mach[i].copies[k], exit_status)))
      ]_vars

\* a copy has failed on an owned connection: the Result follows the accepted
\* Response, with result = false
C23_Witness ==
    \E i \in Ids :
        /\ mach[i].conn = "open" /\ mach[i].copies = <<>>
        /\ Len(mach[i].out) >= 2
        /\ mach[i].out[Len(mach[i].out) - 1] = genMessage(Msg("FsSendFileResponse", <<3, 1>>))
        /\ Last(mach[i].out) = genMessage(Msg("FsSendFileResult", <<3, 1, 0>>))

\* C24: once a Machine is destroyed it has no copy process whose onExit is
\* still set and no clipboard read or async closure pending, and no step
\* runs a callback against it: none of its continuations runs, nothing is
\* written for it, and the daemon does not end on its freed memory.
C24_NoCallbackAfterDestroy ==
    [][\A i \in Ids :
        mach[i].removed =>
            /\ mach[i].copies = <<>> /\ mach[i].reads = <<>> /\ mach[i].async = <<>>
            /\ ~Continuation(i)
            /\ mach'[i].out = mach[i].out
            /\ crashed' = crashed
      ]_vars

\* C25: a read on a Machine that is not connected before it and not
\* connected after it (no PairResponse(agree = true) is among its messages)
\* changes neither deviceSharing nor direction nor the fuse server and
\* client nor the Manager's state, and queues no reply.
C25_OnlyInsidePaired ==
    [][\A i \in Ids :
        (Handling(i) /\ ~mach[i].connected /\ ~mach'[i].connected) =>
            /\ mach'[i].deviceSharing = mach[i].deviceSharing
            /\ mach'[i].direction = mach[i].direction
            /\ mach'[i].fuseServer = mach[i].fuseServer
            /\ mach'[i].fuseClient = mach[i].fuseClient
            /\ mgr' = mgr
            /\ mach'[i].out = mach[i].out
      ]_vars

\* C26: the Manager's sharing slot is released only on behalf of the Machine
\* that holds it: a step that empties the slot is a step in which the holder
\* stops sharing; and so, in every state, the slot of a Manager is empty only
\* if none of its Machines has deviceSharing = true.
C26_SlotReleasedByHolder ==
    /\ [][\A d \in Daemons :
            (mgr[d].slot # None /\ mgr'[d].slot = None) =>
                /\ mach[mgr[d].slot].deviceSharing \/ mach'[mgr[d].slot].removed
                /\ ~mach'[mgr[d].slot].deviceSharing \/ mach'[mgr[d].slot].removed
         ]_vars
    /\ [](\A i \in Ids : mgr[home[i]].slot = None => ~mach[i].deviceSharing)

\* nothing is in flight between the two daemons: every queued frame has been
\* sent, read and handled, and no closure waits for the loop
Quiet ==
    \A i \in Ids :
        /\ mach[i].tx = Len(mach[i].out)
        /\ wire[i] = <<>> /\ mach[i].buf = <<>> /\ mach[i].async = <<>>

Opposite(d1, d2) ==
    \/ {d1, d2} = {FLOW_DIRECTION_TOP, FLOW_DIRECTION_BOTTOM}
    \/ {d1, d2} = {FLOW_DIRECTION_LEFT, FLOW_DIRECTION_RIGHT}

\* C27: in a sharing session between two peers, once every FlowDirectionNtf
\* in flight has been delivered and handled, the directions of the two peers
\* are opposite, after any setFlowDirection calls on either side.
C27_DirectionsOpposite ==
    (Quiet /\ mach[1].deviceSharing /\ mach[2].deviceSharing) =>
        Opposite(mach[1].direction, mach[2].direction)

\* C28: on a stream made by connect() the first frame queued for writing is
\* the PairRequest with the scan key, whatever was called on the Machine
\* between connect() and the stream-connected event.
C28_PairRequestFirst ==
    \A i \in Ids :
        (mach[i].outbound /\ mach[i].out # <<>>) =>
            mach[i].out[1] = genMessage(Msg("PairRequest", <<SCAN_KEY>>))

====
